---------------------------- MODULE Spec2Model ----------------------------
(***************************************************************************)
(* Model of git-const (src/src/lib.rs): the two procedural macros          *)
(* git_hash! and git_short_hash!, the helper run_git that spawns           *)
(* `git rev-parse`, and the error reporter compile_error.                  *)
(*                                                                         *)
(* Text is a sequence of Unicode code points, captured process output a    *)
(* sequence of bytes (0..255).  The conversions the code relies on         *)
(* (UTF-8 validation, str::trim, integer formatting, and the parse of the  *)
(* generated source text into tokens) are computed, not assumed.           *)
(***************************************************************************)
EXTENDS Integers, Sequences

(***************************************************************************)
(* Bounds of the model.                                                    *)
(***************************************************************************)
MaxOut == 3      \* longest captured stdout, in bytes
MaxErr == 2      \* longest captured stderr, in bytes
NProcs == 2      \* expansions running in parallel (specification SpecGit)
HashLen == 3     \* length of a commit hash of the modelled repository

(***************************************************************************)
(* Characters.                                                             *)
(***************************************************************************)
Ord(c) ==
    CASE c = "\n" -> 10  [] c = " " -> 32  [] c = "!" -> 33  [] c = "\"" -> 34
      [] c = "(" -> 40   [] c = ")" -> 41  [] c = "-" -> 45  [] c = "." -> 46
      [] c = "0" -> 48   [] c = "1" -> 49  [] c = "2" -> 50  [] c = "3" -> 51
      [] c = "8" -> 56   [] c = "P" -> 80
      [] c = ":" -> 58   [] c = "<" -> 60  [] c = ">" -> 62
      [] c = "A" -> 65   [] c = "D" -> 68  [] c = "E" -> 69  [] c = "H" -> 72
      [] c = "N" -> 78   [] c = "\\" -> 92 [] c = "_" -> 95
      [] c = "a" -> 97   [] c = "b" -> 98  [] c = "c" -> 99  [] c = "d" -> 100
      [] c = "e" -> 101  [] c = "f" -> 102 [] c = "g" -> 103 [] c = "h" -> 104
      [] c = "i" -> 105  [] c = "l" -> 108 [] c = "m" -> 109 [] c = "n" -> 110
      [] c = "o" -> 111  [] c = "p" -> 112 [] c = "q" -> 113 [] c = "r" -> 114
      [] c = "s" -> 115  [] c = "t" -> 116 [] c = "u" -> 117 [] c = "v" -> 118
      [] c = "w" -> 119  [] c = "x" -> 120 [] c = "y" -> 121 [] c = "z" -> 122

\* The text spelled by a tuple of one-character strings.
Str(s) == [i \in DOMAIN s |-> Ord(s[i])]

\* Display of an i32 (the {status} of a format string).
RECURSIVE Decimal(_)
Decimal(n) ==
    IF n < 0 THEN <<Ord("-")>> \o Decimal(-n)
    ELSE IF n < 10 THEN <<48 + n>>
    ELSE Decimal(n \div 10) \o <<48 + (n % 10)>>

\* char::is_whitespace (the Unicode White_Space property), used by str::trim.
IsWhitespace(c) ==
    \/ c \in 9..13
    \/ c \in {32, 133, 160, 5760, 8232, 8233, 8239, 8287, 12288}
    \/ c \in 8192..8202

RECURSIVE TrimStart(_)
TrimStart(s) ==
    IF s # <<>> /\ IsWhitespace(Head(s)) THEN TrimStart(Tail(s)) ELSE s

RECURSIVE TrimEnd(_)
TrimEnd(s) ==
    IF s # <<>> /\ IsWhitespace(s[Len(s)])
    THEN TrimEnd(SubSeq(s, 1, Len(s) - 1))
    ELSE s

\* str::trim
Trim(s) == TrimEnd(TrimStart(s))

(***************************************************************************)
(* UTF-8 validation and decoding: String::from_utf8 / core::str::from_utf8.*)
(* Utf8(b) is [ok |-> TRUE, text |-> code points] or                       *)
(* [ok |-> FALSE, valid_up_to |-> index, error_len |-> 0..3], where an     *)
(* error_len of 0 stands for None (the input ended inside a sequence).     *)
(***************************************************************************)
IsCont(x) == x \in 128..191

Utf8Width(x) ==
    IF x < 128 THEN 1
    ELSE IF x \in 194..223 THEN 2
    ELSE IF x \in 224..239 THEN 3
    ELSE IF x \in 240..244 THEN 4
    ELSE 0

\* The second byte of a three or four byte sequence, by its first byte.
SecondOk(first, x) ==
    CASE first = 224 -> x \in 160..191
      [] first = 237 -> x \in 128..159
      [] first = 240 -> x \in 144..191
      [] first = 244 -> x \in 128..143
      [] OTHER -> IsCont(x)

RECURSIVE Utf8From(_, _, _)
Utf8From(b, i, acc) ==
    IF i > Len(b) THEN [ok |-> TRUE, text |-> acc, valid_up_to |-> Len(b), error_len |-> 0]
    ELSE
      LET first == b[i]
          w == Utf8Width(first)
          err(n) == [ok |-> FALSE, text |-> <<>>, valid_up_to |-> i - 1, error_len |-> n]
      IN  IF w = 1 THEN Utf8From(b, i + 1, Append(acc, first))
          ELSE IF w = 0 THEN err(1)
          ELSE IF i + 1 > Len(b) THEN err(0)
          ELSE IF w = 2 THEN
               IF ~IsCont(b[i + 1]) THEN err(1)
               ELSE Utf8From(b, i + 2,
                             Append(acc, (first - 192) * 64 + (b[i + 1] - 128)))
          ELSE IF ~SecondOk(first, b[i + 1]) THEN err(1)
          ELSE IF i + 2 > Len(b) THEN err(0)
          ELSE IF ~IsCont(b[i + 2]) THEN err(2)
          ELSE IF w = 3 THEN
               Utf8From(b, i + 3,
                        Append(acc, (first - 224) * 4096 + (b[i + 1] - 128) * 64
                                     + (b[i + 2] - 128)))
          ELSE IF i + 3 > Len(b) THEN err(0)
          ELSE IF ~IsCont(b[i + 3]) THEN err(3)
          ELSE Utf8From(b, i + 4,
                        Append(acc, (first - 240) * 262144 + (b[i + 1] - 128) * 4096
                                     + (b[i + 2] - 128) * 64 + (b[i + 3] - 128)))

Utf8(b) == Utf8From(b, 1, <<>>)

\* Display of the decoding error (the {error} of line 41).
Utf8ErrorText(e) ==
    IF e.error_len = 0
    THEN Str(<<"i","n","c","o","m","p","l","e","t","e"," ","u","t","f","-","8"," ",
               "b","y","t","e"," ","s","e","q","u","e","n","c","e"," ",
               "f","r","o","m"," ","i","n","d","e","x"," ">>) \o Decimal(e.valid_up_to)
    ELSE Str(<<"i","n","v","a","l","i","d"," ","u","t","f","-","8"," ",
               "s","e","q","u","e","n","c","e"," ","o","f"," ">>) \o Decimal(e.error_len)
         \o Str(<<" ","b","y","t","e","s"," ","f","r","o","m"," ",
                  "i","n","d","e","x"," ">>) \o Decimal(e.valid_up_to)

(***************************************************************************)
(* The parse of generated source text into a token stream:                 *)
(* `str::parse::<TokenStream>()`, lines 32, 71 and 92.  A token is         *)
(* [t, v, suffix]: t is "ident", "punct", "num", "open", "close" or "str"; *)
(* v is the token's text, for a string literal its unescaped value.        *)
(* Delimiters must balance.  A lexical error (unterminated string, bad     *)
(* escape, stray backslash, unbalanced delimiter, unknown literal prefix   *)
(* as in edition 2021) makes the parse fail.  Not modelled, and failing:   *)
(* \u{..} escapes, raw, byte and C strings, character literals, comments;  *)
(* none of their introducers can be produced from the bytes the model      *)
(* feeds (see Bytes).                                                      *)
(***************************************************************************)
Fail == [ok |-> FALSE, toks |-> <<>>]

Tok(t, v, suffix) == [t |-> t, v |-> v, suffix |-> suffix]

\* Pattern_White_Space, skipped between tokens.
IsLexSpace(c) == c \in 9..13 \/ c \in {32, 133, 8206, 8207, 8232, 8233}

IsDigit(c) == c \in 48..57

\* XID_Start / XID_Continue, for ASCII and Latin-1.
IsIdStart(c) ==
    \/ c \in 65..90 \/ c \in 97..122 \/ c = 95
    \/ c \in {170, 181, 186} \/ c \in 192..214 \/ c \in 216..246 \/ c \in 248..255

IsIdContinue(c) == IsIdStart(c) \/ IsDigit(c) \/ c = 183

IsPunct(c) ==
    c \in {33, 35, 36, 37, 38, 42, 43, 44, 45, 46, 58, 59, 60, 61, 62, 63,
           64, 94, 124, 126}

\* First index at or after i that does not continue an identifier.
IdRun(s, i) ==
    LET stops == { k \in i..Len(s) : ~IsIdContinue(s[k]) }
    IN  IF stops = {} THEN Len(s) + 1
        ELSE CHOOSE k \in stops : \A m \in stops : k <= m

\* End of the identifier (or literal suffix) starting at i; i when none starts.
IdentEnd(s, i) == IF i <= Len(s) /\ IsIdStart(s[i]) THEN IdRun(s, i + 1) ELSE i

\* After a backslash-newline, a string literal skips ASCII whitespace.
RECURSIVE SkipStrSpace(_, _)
SkipStrSpace(s, j) ==
    IF j <= Len(s) /\ s[j] \in {9, 10, 13, 32} THEN SkipStrSpace(s, j + 1) ELSE j

HexVal(c) ==
    IF IsDigit(c) THEN c - 48
    ELSE IF c \in 97..102 THEN c - 87
    ELSE IF c \in 65..70 THEN c - 55
    ELSE 0 - 1

\* The body of a string literal from index j, just after its opening quote:
\* plain characters up to the next double quote or backslash, then the escape.
RECURSIVE ScanStr(_, _, _)
ScanStr(s, j, val) ==
    LET bad == [ok |-> FALSE, next |-> j, val |-> <<>>]
        stops == { k \in j..Len(s) : s[k] \in {34, 92} }
    IN  IF stops = {} THEN bad
        ELSE
          LET k == CHOOSE x \in stops : \A m \in stops : x <= m
              v == val \o SubSeq(s, j, k - 1)
          IN  IF s[k] = 34 THEN [ok |-> TRUE, next |-> k + 1, val |-> v]
              ELSE IF k + 1 > Len(s) THEN bad
              ELSE LET e == s[k + 1]
                   IN  CASE e \in {34, 39, 92} -> ScanStr(s, k + 2, Append(v, e))
                         [] e = 110 -> ScanStr(s, k + 2, Append(v, 10))
                         [] e = 114 -> ScanStr(s, k + 2, Append(v, 13))
                         [] e = 116 -> ScanStr(s, k + 2, Append(v, 9))
                         [] e = 48  -> ScanStr(s, k + 2, Append(v, 0))
                         [] e = 10  -> ScanStr(s, SkipStrSpace(s, k + 2), v)
                         [] e = 120 ->
                              IF /\ k + 3 <= Len(s)
                                 /\ HexVal(s[k + 2]) \in 0..7
                                 /\ HexVal(s[k + 3]) \in 0..15
                              THEN ScanStr(s, k + 4,
                                           Append(v, HexVal(s[k + 2]) * 16 + HexVal(s[k + 3])))
                              ELSE bad
                         [] OTHER -> bad

RECURSIVE Lex(_, _, _, _)
Lex(s, i, depth, acc) ==
    IF i > Len(s) THEN (IF depth = 0 THEN [ok |-> TRUE, toks |-> acc] ELSE Fail)
    ELSE
      LET c == s[i]
      IN  IF IsLexSpace(c) THEN Lex(s, i + 1, depth, acc)
          ELSE IF c = 34 THEN
               LET r == ScanStr(s, i + 1, <<>>)
                   e == IdentEnd(s, r.next)
               IN  IF ~r.ok THEN Fail
                   ELSE Lex(s, e, depth,
                            Append(acc, Tok("str", r.val, SubSeq(s, r.next, e - 1))))
          ELSE IF IsIdStart(c) THEN
               LET e == IdentEnd(s, i)
               IN  IF e <= Len(s) /\ s[e] \in {34, 35, 39} THEN Fail
                   ELSE Lex(s, e, depth, Append(acc, Tok("ident", SubSeq(s, i, e - 1), <<>>)))
          ELSE IF IsDigit(c) THEN
               LET e == IdRun(s, i)
               IN  Lex(s, e, depth, Append(acc, Tok("num", SubSeq(s, i, e - 1), <<>>)))
          ELSE IF c = 40 THEN Lex(s, i + 1, depth + 1, Append(acc, Tok("open", <<c>>, <<>>)))
          ELSE IF c = 41 THEN
               IF depth = 0 THEN Fail
               ELSE Lex(s, i + 1, depth - 1, Append(acc, Tok("close", <<c>>, <<>>)))
          ELSE IF IsPunct(c) THEN Lex(s, i + 1, depth, Append(acc, Tok("punct", <<c>>, <<>>)))
          ELSE Fail

\* str::parse::<TokenStream>()
Parse(src) == Lex(src, 1, 0, <<>>)

(***************************************************************************)
(* What an expansion hands back to the compiler: the token stream parsed   *)
(* from the source text src, or a panic of the macro (the `expect` on a    *)
(* failed parse).  NoOutput is the value before the expansion returns.     *)
(***************************************************************************)
NoOutput == [kind |-> "none", src |-> <<>>, toks |-> <<>>]

\* `.parse().expect(..)`
ParseExpect(src) ==
    LET r == Parse(src)
    IN  IF r.ok THEN [kind |-> "tokens", src |-> src, toks |-> r.toks]
        ELSE [kind |-> "panic", src |-> src, toks |-> <<>>]

\* fn compile_error(args) -> TokenStream
compile_error(args) ==
    ParseExpect(Str(<<"c","o","m","p","i","l","e","_","e","r","r","o","r","!","(","\"">>)
                \o args \o Str(<<"\"",")">>))

(***************************************************************************)
(* The child process as run_git sees it: whether it could be spawned (and  *)
(* the OS error text when not), its exit status (a code, or none when a    *)
(* signal ended it), and the bytes captured from stdout and stderr.        *)
(***************************************************************************)
NoChild == [spawned |-> FALSE, oserr |-> <<>>, signalled |-> FALSE, code |-> 0,
            stdout |-> <<>>, stderr |-> <<>>]

\* ExitStatus::success()
Success(r) == ~r.signalled /\ r.code = 0

InvalidUtf8 == Str(<<"<","i","n","v","a","l","i","d"," ","u","t","f","-","8",">">>)

GitExecutionError ==
    Str(<<"g","i","t"," ","e","x","e","c","u","t","i","o","n"," ","e","r","r","o","r",":"," ">>)

GitOutputNotUtf8 ==
    Str(<<"g","i","t"," ","o","u","t","p","u","t"," ","i","s"," ","n","o","t"," ",
          "v","a","l","i","d"," ","u","t","f","-","8",":"," ">>)

GitFailedWithStatus ==
    Str(<<"g","i","t"," ","f","a","i","l","e","d"," ","w","i","t","h"," ",
          "s","t","a","t","u","s"," ">>)

\* Mutant of decode_stdout: a lossy decode that replaces what is invalid.
decode_stdout_lossy(r) ==
    LET d == Utf8(r.stdout)
    IN  [ok |-> TRUE, text |-> IF d.ok THEN d.text ELSE <<65533>>, err |-> NoOutput]

\* run_git, lines 39-42: the stdout of a child that exited with status 0.
decode_stdout(r) ==
    LET d == Utf8(r.stdout)
    IN  IF d.ok THEN [ok |-> TRUE, text |-> d.text, err |-> NoOutput]
        ELSE [ok |-> FALSE, text |-> <<>>,
              err |-> compile_error(GitOutputNotUtf8 \o Utf8ErrorText(d))]

\* Mutant of status: an undeterminable exit code reported as 0.
status_or_zero(r) == IF r.signalled THEN 0 ELSE r.code

\* run_git, line 44: output.status.code().unwrap_or(1)
status(r) == IF r.signalled THEN 1 ELSE r.code

\* run_git, line 45: core::str::from_utf8(&output.stderr).unwrap_or("<invalid utf-8>")
stderr_text(r) ==
    LET e == Utf8(r.stderr) IN IF e.ok THEN e.text ELSE InvalidUtf8

\* fn run_git(args) -> Result<String, TokenStream>, given what the child did.
run_git(r) ==
    IF ~r.spawned THEN
        [ok |-> FALSE, text |-> <<>>, err |-> compile_error(GitExecutionError \o r.oserr)]
    ELSE IF Success(r) THEN decode_stdout(r)
    ELSE
        [ok |-> FALSE, text |-> <<>>,
         err |-> compile_error(GitFailedWithStatus \o Decimal(status(r))
                               \o Str(<<":","\n"," ">>) \o stderr_text(r))]

HEAD == Str(<<"H","E","A","D">>)
RevParse == Str(<<"r","e","v","-","p","a","r","s","e">>)
Short == Str(<<"-","-","s","h","o","r","t">>)

\* Mutant of git_hash_revision: the input is tested for emptiness before it
\* is trimmed.
git_hash_revision_untrimmed_test(input) ==
    IF input = <<>> THEN HEAD ELSE Trim(input)

\* git_hash, lines 59-63: the revision named by the macro's input.
git_hash_revision(input) ==
    LET t == Trim(input) IN IF t = <<>> THEN HEAD ELSE t

\* git_hash, lines 65-71: from run_git's result to the macro's output.
git_hash_output(r) ==
    LET res == run_git(r)
    IN  IF ~res.ok THEN res.err
        ELSE ParseExpect(<<34>> \o Trim(res.text) \o <<34>>)

\* Mutant of git_short_hash_revision: the input is passed on untrimmed.
git_short_hash_revision_untrimmed(input) ==
    IF Trim(input) = <<>> THEN HEAD ELSE input

\* git_short_hash, lines 80-84.
git_short_hash_revision(input) ==
    LET t == Trim(input) IN IF t = <<>> THEN HEAD ELSE t

\* Mutant of git_short_hash_output: the tool's output is embedded untrimmed.
git_short_hash_output_untrimmed(r) ==
    LET res == run_git(r)
    IN  IF ~res.ok THEN res.err
        ELSE ParseExpect(<<34>> \o res.text \o <<34>>)

\* git_short_hash, lines 86-92.
git_short_hash_output(r) ==
    LET res == run_git(r)
    IN  IF ~res.ok THEN res.err
        ELSE ParseExpect(<<34>> \o Trim(res.text) \o <<34>>)

(***************************************************************************)
(* The environment.  Inputs are the texts of the macro's input tokens      *)
(* (`input.to_string()`): absent, blank, HEAD, a tag between spaces, two   *)
(* words.  Bytes are what the child may write: newline, double quote,      *)
(* backslash, the letter a, and 0xC3 0xA9 (the two bytes of U+00E9, each   *)
(* invalid alone).                                                         *)
(***************************************************************************)
Tag == Str(<<"v","1">>)

Inputs ==
    { <<>>, Str(<<" ","\n">>), HEAD, Str(<<" ","v","1"," ">>), Str(<<"z"," ","z">>) }

Bytes == {10, 34, 92, 97, 195, 169}

ByteSeqs(n) == UNION { [1..k -> Bytes] : k \in 0..n }

\* Display of the io::Error of a failed spawn.
NotFound ==
    Str(<<"N","o"," ","s","u","c","h"," ","f","i","l","e"," ","o","r"," ",
          "d","i","r","e","c","t","o","r","y"," ","(","o","s"," ",
          "e","r","r","o","r"," ","2",")">>)

OsErrors ==
    { NotFound,
      Str(<<"P","e","r","m","i","s","s","i","o","n"," ","d","e","n","i","e","d"," ",
            "(","o","s"," ","e","r","r","o","r"," ","1","3",")">>) }

\* Any child: not spawned, exit 0 with any stdout, or a failure with any stderr.
AnyChild ==
    { [NoChild EXCEPT !.oserr = e] : e \in OsErrors }
    \cup { [NoChild EXCEPT !.spawned = TRUE, !.stdout = b] : b \in ByteSeqs(MaxOut) }
    \cup { [NoChild EXCEPT !.spawned = TRUE, !.signalled = st[1], !.code = st[2],
                           !.stderr = b] :
             st \in {<<FALSE, 1>>, <<FALSE, 128>>, <<TRUE, 0>>}, b \in ByteSeqs(MaxErr) }

(***************************************************************************)
(* The tool as the specification describes it, for a known repository:     *)
(* HEAD is at commit repo.head, the tag v1 at commit 1, and the short form *)
(* of a hash is its first repo.abbrev characters.  `git rev-parse` prints  *)
(* the hash and a newline, or fails with status 128 on an unknown revision.*)
(***************************************************************************)
NoRepo == [known |-> FALSE, head |-> 0, abbrev |-> 0]

Repos == { [known |-> TRUE, head |-> h, abbrev |-> n] : h \in {1, 2}, n \in 1..HashLen }

Hash(c) == [i \in 1..HashLen |-> IF i = 1 THEN 48 + c ELSE 97]

BadRevision ==
    Str(<<"f","a","t","a","l",":"," ","b","a","d"," ","r","e","v","i","s","i","o","n","\n">>)

git_rev_parse(r, argv) ==
    LET rev == argv[Len(argv)]
        short == Len(argv) = 3 /\ argv[2] = Short
        commit == IF rev = HEAD THEN r.head ELSE IF rev = Tag THEN 1 ELSE 0
        hash == IF short THEN SubSeq(Hash(commit), 1, r.abbrev) ELSE Hash(commit)
    IN  IF Len(argv) \in {2, 3} /\ argv[1] = RevParse /\ (Len(argv) = 3 => short) /\ commit # 0
        THEN [NoChild EXCEPT !.spawned = TRUE, !.stdout = hash \o <<10>>]
        ELSE [NoChild EXCEPT !.spawned = TRUE, !.code = 128, !.stderr = BadRevision]

\* What `Command::new("git").args(args).output()` may return.
Children(r, argv) ==
    IF r.known THEN {git_rev_parse(r, argv), [NoChild EXCEPT !.oserr = NotFound]}
    ELSE AnyChild

(***************************************************************************)
(* State.  One record field per expansion p: which macro is expanding, its *)
(* input, where it is (idle, waiting for the child, done), the argument    *)
(* list it gave the tool, how many children it spawned, what its child     *)
(* did, and its output.  repo is the repository the tool reads; the code   *)
(* never writes it.                                                        *)
(***************************************************************************)
VARIABLES macro, input, pc, args, spawns, child, out, repo

vars == <<macro, input, pc, args, spawns, child, out, repo>>

Procs == DOMAIN pc

InitWith(P, R) ==
    /\ macro = [p \in P |-> "none"]
    /\ input = [p \in P |-> <<>>]
    /\ pc = [p \in P |-> "idle"]
    /\ args = [p \in P |-> <<>>]
    /\ spawns = [p \in P |-> 0]
    /\ child = [p \in P |-> NoChild]
    /\ out = [p \in P |-> NoOutput]
    /\ repo \in R

\* One expansion, a tool that may do anything.
Init == InitWith({1}, {NoRepo})

\* Parallel expansions over one unchanging repository.
InitGit == InitWith(1..NProcs, Repos)

\* Mutant of git_hash_call: the argument list is built in storage that all
\* expansions share.
git_hash_call_shared(p) ==
    /\ p \in Procs
    /\ pc[p] = "idle"
    /\ \E i \in Inputs :
         /\ macro' = [macro EXCEPT ![p] = "git_hash"]
         /\ input' = [input EXCEPT ![p] = i]
         /\ args' = [q \in Procs |-> <<RevParse, git_hash_revision(i)>>]
    /\ spawns' = [spawns EXCEPT ![p] = @ + 1]
    /\ pc' = [pc EXCEPT ![p] = "waiting"]
    /\ UNCHANGED <<child, out, repo>>

\* git_hash up to the call of Command::output (lines 59-65, 37).
git_hash_call(p) ==
    /\ p \in Procs
    /\ pc[p] = "idle"
    /\ \E i \in Inputs :
         /\ macro' = [macro EXCEPT ![p] = "git_hash"]
         /\ input' = [input EXCEPT ![p] = i]
         /\ args' = [args EXCEPT ![p] = <<RevParse, git_hash_revision(i)>>]
    /\ spawns' = [spawns EXCEPT ![p] = @ + 1]
    /\ pc' = [pc EXCEPT ![p] = "waiting"]
    /\ UNCHANGED <<child, out, repo>>

\* git_hash from the child's end to the macro's return (lines 37-50, 65-71).
git_hash_return(p) ==
    /\ p \in Procs
    /\ pc[p] = "waiting"
    /\ macro[p] = "git_hash"
    /\ \E r \in Children(repo, args[p]) :
         /\ child' = [child EXCEPT ![p] = r]
         /\ out' = [out EXCEPT ![p] = git_hash_output(r)]
    /\ pc' = [pc EXCEPT ![p] = "done"]
    /\ UNCHANGED <<macro, input, args, spawns, repo>>

\* git_short_hash up to the call of Command::output (lines 80-86, 37).
git_short_hash_call(p) ==
    /\ p \in Procs
    /\ pc[p] = "idle"
    /\ \E i \in Inputs :
         /\ macro' = [macro EXCEPT ![p] = "git_short_hash"]
         /\ input' = [input EXCEPT ![p] = i]
         /\ args' = [args EXCEPT ![p] = <<RevParse, Short, git_short_hash_revision(i)>>]
    /\ spawns' = [spawns EXCEPT ![p] = @ + 1]
    /\ pc' = [pc EXCEPT ![p] = "waiting"]
    /\ UNCHANGED <<child, out, repo>>

\* git_short_hash from the child's end to the macro's return (lines 37-50, 86-92).
git_short_hash_return(p) ==
    /\ p \in Procs
    /\ pc[p] = "waiting"
    /\ macro[p] = "git_short_hash"
    /\ \E r \in Children(repo, args[p]) :
         /\ child' = [child EXCEPT ![p] = r]
         /\ out' = [out EXCEPT ![p] = git_short_hash_output(r)]
    /\ pc' = [pc EXCEPT ![p] = "done"]
    /\ UNCHANGED <<macro, input, args, spawns, repo>>

Next ==
    \E p \in 1..NProcs :
        \/ git_hash_call(p)
        \/ git_hash_return(p)
        \/ git_short_hash_call(p)
        \/ git_short_hash_return(p)

Spec == Init /\ [][Next]_vars

SpecGit == InitGit /\ [][Next]_vars

(***************************************************************************)
(* Vocabulary of the properties.                                           *)
(***************************************************************************)
Done(p) == pc[p] = "done"

\* The three failures of the tool: no spawn, non-zero exit, undecodable stdout.
ToolFailed(r) == ~r.spawned \/ ~Success(r) \/ ~Utf8(r.stdout).ok

\* The tool exited with status 0 and its stdout decoded as text.
ToolSucceeded(r) == r.spawned /\ Success(r) /\ Utf8(r.stdout).ok

CompileErrorIdent == Str(<<"c","o","m","p","i","l","e","_","e","r","r","o","r">>)

\* o is exactly the directive compile_error!("msg").
IsDirective(o, msg) ==
    /\ o.kind = "tokens"
    /\ o.toks = << Tok("ident", CompileErrorIdent, <<>>), Tok("punct", <<33>>, <<>>),
                   Tok("open", <<40>>, <<>>), Tok("str", msg, <<>>),
                   Tok("close", <<41>>, <<>>) >>

\* o is a directive compile_error!("..") with some message.
IsSomeDirective(o) ==
    /\ o.kind = "tokens"
    /\ Len(o.toks) = 5
    /\ o.toks[4].t = "str"
    /\ IsDirective(o, o.toks[4].v)

\* o is one string literal, without suffix: a string constant.
IsConstant(o) ==
    /\ o.kind = "tokens"
    /\ Len(o.toks) = 1
    /\ o.toks[1].t = "str"
    /\ o.toks[1].suffix = <<>>

Value(o) == o.toks[1].v

\* The message compile_error was given: src is compile_error!(" message ").
MessageOf(o) == SubSeq(o.src, 17, Len(o.src) - 2)

IsPrefix(a, b) == Len(a) <= Len(b) /\ SubSeq(b, 1, Len(a)) = a

Blank(s) == \A i \in DOMAIN s : IsWhitespace(s[i])

\* t is s without its leading and trailing whitespace.
IsTrimOf(t, s) ==
    \E i \in 1..(Len(s) + 1) : \E j \in 0..Len(s) :
        /\ t = SubSeq(s, i, j)
        /\ \A k \in 1..(i - 1) : IsWhitespace(s[k])
        /\ \A k \in (j + 1)..Len(s) : IsWhitespace(s[k])
        /\ t # <<>> => ~IsWhitespace(t[1]) /\ ~IsWhitespace(t[Len(t)])

\* C1: whenever the tool cannot be spawned, exits non-zero or writes stdout
\* that is not UTF-8, the expansion's output is a build-failure directive and
\* not a string constant, and the tool was invoked exactly once.
C1_FailureYieldsDirective ==
    \A p \in Procs :
        Done(p) /\ ToolFailed(child[p]) =>
            /\ IsSomeDirective(out[p])
            /\ ~IsConstant(out[p])
            /\ spawns[p] = 1

\* C2: whenever an expansion succeeds, the string constant it generates is
\* non-empty and contains no newline.
C2_ConstantNonEmptyNoNewline ==
    \A p \in Procs :
        Done(p) /\ ToolSucceeded(child[p]) /\ IsConstant(out[p]) =>
            /\ Value(out[p]) # <<>>
            /\ \A i \in DOMAIN Value(out[p]) : Value(out[p])[i] # 10

\* C3: for a revision the tool resolves, in one repository, the constant of
\* git_short_hash is a non-empty prefix of the constant of git_hash.
C3_ShortIsPrefixOfFull ==
    \A p, q \in Procs :
        /\ Done(p) /\ macro[p] = "git_hash" /\ ToolSucceeded(child[p])
        /\ Done(q) /\ macro[q] = "git_short_hash" /\ ToolSucceeded(child[q])
        /\ input[p] = input[q]
        => /\ IsConstant(out[p])
           /\ IsConstant(out[q])
           /\ Value(out[q]) # <<>>
           /\ IsPrefix(Value(out[q]), Value(out[p]))

C3_Witness ==
    \E p, q \in Procs :
        /\ Done(p) /\ macro[p] = "git_hash" /\ ToolSucceeded(child[p])
        /\ Done(q) /\ macro[q] = "git_short_hash" /\ ToolSucceeded(child[q])
        /\ input[p] = input[q]
        /\ ~Blank(input[p])
        /\ IsConstant(out[p]) /\ IsConstant(out[q])
        /\ Len(Value(out[q])) < Len(Value(out[p]))

\* C4: an absent, empty or whitespace-only input gives the same invocation,
\* and with the same tool behaviour the same output, as the input HEAD.
C4_BlankIsHead ==
    \A p, q \in Procs :
        /\ pc[p] # "idle" /\ pc[q] # "idle"
        /\ macro[p] = macro[q]
        /\ Blank(input[p])
        /\ input[q] = HEAD
        => /\ args[p] = args[q]
           /\ (Done(p) /\ Done(q) /\ child[p] = child[q] => out[p] = out[q])

C4_Witness ==
    \E p, q \in Procs :
        /\ Done(p) /\ Done(q)
        /\ macro[p] = macro[q]
        /\ input[p] # <<>> /\ Blank(input[p])
        /\ input[q] = HEAD
        /\ IsConstant(out[p])
        /\ out[p] = out[q]

\* C5: for every message the error reporter is given, the result is the
\* well-formed directive carrying that message, and building it does not panic.
C5_ErrorReporterWellFormed ==
    \A p \in Procs :
        Done(p) /\ ToolFailed(child[p]) =>
            /\ out[p].kind # "panic"
            /\ IsDirective(out[p], MessageOf(out[p]))

\* C6: a child that exits with status 0 and stdout that is not valid UTF-8
\* yields a build-failure directive whose message names the decoding error,
\* never a panic and never a constant.
C6_InvalidStdoutYieldsDirective ==
    \A p \in Procs :
        Done(p) /\ child[p].spawned /\ Success(child[p]) /\ ~Utf8(child[p].stdout).ok =>
            /\ out[p].kind # "panic"
            /\ ~IsConstant(out[p])
            /\ IsSomeDirective(out[p])
            /\ IsPrefix(GitOutputNotUtf8, out[p].toks[4].v)
            /\ Len(out[p].toks[4].v) > Len(GitOutputNotUtf8)
            /\ \A i \in DOMAIN out[p].toks[4].v : out[p].toks[4].v[i] < 128

C6_Witness ==
    \E p \in Procs :
        /\ Done(p) /\ child[p].spawned /\ Success(child[p])
        /\ ~Utf8(child[p].stdout).ok
        /\ Len(child[p].stdout) = MaxOut
        /\ IsSomeDirective(out[p])

\* C7: on success the output is one string literal whose value is exactly the
\* decoded stdout without its leading and trailing whitespace.
C7_ConstantIsTrimmedStdout ==
    \A p \in Procs :
        Done(p) /\ ToolSucceeded(child[p]) =>
            /\ IsConstant(out[p])
            /\ IsTrimOf(Value(out[p]), Utf8(child[p].stdout).text)

C9_ArgumentList ==
    \A p \in Procs :
        pc[p] # "idle" =>
            LET rev == args[p][Len(args[p])]
            IN  /\ macro[p] = "git_hash" => Len(args[p]) = 2
                /\ macro[p] = "git_short_hash" => Len(args[p]) = 3 /\ args[p][2] = Short
                /\ args[p][1] = RevParse
                /\ Blank(input[p]) => rev = HEAD
                /\ ~Blank(input[p]) => IsTrimOf(rev, input[p])

C9_Witness ==
    \E p \in Procs :
        /\ Done(p)
        /\ macro[p] = "git_short_hash"
        /\ ~Blank(input[p])
        /\ IsWhitespace(input[p][1])
        /\ args[p][3] # input[p]

\* What belongs to expansion p.
Own(p) == <<macro[p], input[p], pc[p], args[p], spawns[p], child[p], out[p]>>

OwnNext(p) == <<macro'[p], input'[p], pc'[p], args'[p], spawns'[p], child'[p], out'[p]>>

\* C10: under every interleaving a step of one expansion changes nothing of
\* another and nothing shared, and expansions of the same macro with the same
\* input and the same child response have the same arguments and output.
C10_NoSharedState ==
    /\ [](\A p, q \in Procs :
            macro[p] = macro[q] /\ input[p] = input[q] /\ pc[p] = pc[q]
            /\ child[p] = child[q]
            => args[p] = args[q] /\ out[p] = out[q])
    /\ [][/\ repo' = repo
          /\ \A p, q \in Procs : p # q /\ OwnNext(p) # Own(p) => OwnNext(q) = Own(q)]_vars

C10_Witness ==
    \E p, q \in Procs :
        /\ pc[p] = "waiting" /\ Done(q)
        /\ macro[p] = macro[q]
        /\ args[p] # args[q]
        /\ out[q].kind = "tokens"

=============================================================================
